---- MODULE Spec2Model ----
(***************************************************************************)
(* Model of the agent loop of ollama_terminal.py: parse_json,              *)
(* trim_messages, run_agent with its Spinner threads, the threads and      *)
(* processes of run_cmd, and the cache of detect_endpoint.                 *)
(*                                                                         *)
(* Generator text is modelled as a sequence of lexical tokens.  The        *)
(* tokens are the pieces of text that parse_json tells apart:              *)
(*   "{" "}" ","      the structural characters of an object               *)
(*   "a=run" ...      the member  "action": "<value>"                      *)
(*   "c=ls" "c=" "c=5" the member "command": "ls" / "" / 5                 *)
(*   "k=1"            a member with another key and a scalar value         *)
(*   "k=brace"        a member whose string value contains the char }      *)
(*   "k="             a key "k": whose value is the JSON value following   *)
(*   "null" "0" "[1]" complete JSON values that are not objects            *)
(*   "x"              prose (never part of valid JSON)                     *)
(*   "ws"             JSON whitespace: space, tab, newline, return         *)
(*   "ff"             other whitespace: form feed, no-break space, ...     *)
(*   "fence" "json"   a code fence (three backquotes), the tag after it     *)
(***************************************************************************)
EXTENDS Integers, Sequences, FiniteSets, TLC

\* ---------------------------------------------------------------- config
\* src line 70 sets 60, line 71 sets 5, line 72 sets 16; the model runs the
\* same code with smaller values so that every ceiling is reached.
MAX_ITERATIONS == 3
MAX_JSON_RETRIES == 2
MAX_HISTORY_MSGS == 4
\* the literal 3 of "if consecutive_fails >= 3"
FAIL_LIMIT == 3

\* ---------------------------------------------------------------- JSON values
\* Python values json.loads can return, as far as parse_json and run_agent
\* tell them apart.
JNone == [t |-> "none"]
JAbsent == [t |-> "absent"]
JNum(n) == [t |-> "num", v |-> n]
JList == [t |-> "list", n |-> 1]
JStr == [t |-> "str"]
ABSENT == "<absent>"
NONSTR == "<nonstr>"
EmptyDict == [t |-> "dict", action |-> ABSENT, command |-> ABSENT, k |-> JAbsent]

ActionTokens == {"a=run", "a=done", "a=ask", "a=search", "a=fetch", "a=zap"}
CommandTokens == {"c=ls", "c=", "c=5"}
OtherPairTokens == {"k=1", "k=brace"}
PairTokens == ActionTokens \cup CommandTokens \cup OtherPairTokens
ScalarTokens == {"null", "0", "[1]"}

\* the dictionary after "key": value is stored (a later duplicate key wins)
Put(d, tok) ==
  CASE tok = "a=run" -> [d EXCEPT !.action = "run"]
    [] tok = "a=done" -> [d EXCEPT !.action = "done"]
    [] tok = "a=ask" -> [d EXCEPT !.action = "ask"]
    [] tok = "a=search" -> [d EXCEPT !.action = "search"]
    [] tok = "a=fetch" -> [d EXCEPT !.action = "fetch"]
    [] tok = "a=zap" -> [d EXCEPT !.action = "zap"]
    [] tok = "c=ls" -> [d EXCEPT !.command = "ls"]
    [] tok = "c=" -> [d EXCEPT !.command = ""]
    [] tok = "c=5" -> [d EXCEPT !.command = NONSTR]
    [] tok = "k=1" -> [d EXCEPT !.k = JNum(1)]
    [] tok = "k=brace" -> [d EXCEPT !.k = JStr]

ScalarVal(tok) ==
  CASE tok = "null" -> JNone
    [] tok = "0" -> JNum(0)
    [] tok = "[1]" -> JList

Tok(t, i) == IF i >= 1 /\ i <= Len(t) THEN t[i] ELSE "<eof>"

\* what str.strip() and the pattern \s take for whitespace; json.loads
\* skips only the four characters of "ws" between the tokens of a value
SpaceTokens == {"ws", "ff"}

RECURSIVE SkipWs(_, _)
SkipWs(t, i) == IF Tok(t, i) = "ws" THEN SkipWs(t, i + 1) ELSE i

ParseFail == [ok |-> FALSE, val |-> JNone, next |-> 0]

\* the JSON grammar json.loads accepts, over the tokens: a value starting at
\* t[i]; the result carries the value and the index after it
RECURSIVE ParseValue(_, _), ParseMembers(_, _, _), ParseAfterMember(_, _, _)
ParseValue(t, i0) ==
  LET i == SkipWs(t, i0)
      c == Tok(t, i)
  IN IF c = "{"
       THEN LET j == SkipWs(t, i + 1)
            IN IF Tok(t, j) = "}"
                 THEN [ok |-> TRUE, val |-> EmptyDict, next |-> j + 1]
                 ELSE ParseMembers(t, j, EmptyDict)
       ELSE IF c \in ScalarTokens
              THEN [ok |-> TRUE, val |-> ScalarVal(c), next |-> i + 1]
              ELSE ParseFail

ParseMembers(t, i, d) ==
  LET c == Tok(t, i)
  IN IF c \in PairTokens
       THEN ParseAfterMember(t, i + 1, Put(d, c))
       ELSE IF c = "k="
              THEN LET r == ParseValue(t, i + 1)
                   IN IF r.ok
                        THEN ParseAfterMember(t, r.next, [d EXCEPT !.k = r.val])
                        ELSE ParseFail
              ELSE ParseFail

ParseAfterMember(t, i0, d) ==
  LET i == SkipWs(t, i0)
      c == Tok(t, i)
  IN IF c = "}"
       THEN [ok |-> TRUE, val |-> d, next |-> i + 1]
       ELSE IF c = ","
              THEN ParseMembers(t, SkipWs(t, i + 1), d)
              ELSE ParseFail

\* json.loads(t): [ok, val]; ok = FALSE stands for the exception it raises
json_loads(t) ==
  LET r == ParseValue(t, 1)
  IN IF r.ok /\ SkipWs(t, r.next) = Len(t) + 1
       THEN [ok |-> TRUE, val |-> r.val]
       ELSE [ok |-> FALSE, val |-> JNone]

\* Python truth value, as tested by "if parsed: break"
Truthy(v) ==
  CASE v.t = "none" -> FALSE
    [] v.t = "num" -> v.v # 0
    [] v.t = "list" -> TRUE
    [] v.t = "dict" -> v # EmptyDict
    [] OTHER -> TRUE

\* ---------------------------------------------------------------- parse_json
RECURSIVE LStrip(_)
LStrip(t) ==
  IF Len(t) > 0 /\ t[1] \in SpaceTokens THEN LStrip(Tail(t)) ELSE t

RECURSIVE RStrip(_)
RStrip(t) ==
  IF Len(t) > 0 /\ t[Len(t)] \in SpaceTokens
    THEN RStrip(SubSeq(t, 1, Len(t) - 1))
    ELSE t

Strip(t) == RStrip(LStrip(t))

\* variant: the pattern has no optional json tag
StripFenceOpen_KeepTag(t) ==
  IF Len(t) > 0 /\ t[1] = "fence" THEN LStrip(Tail(t)) ELSE t

\* line 518: the opening fence, an optional json tag and whitespace go
StripFenceOpen(t) ==
  IF Len(t) > 0 /\ t[1] = "fence"
    THEN LET u == Tail(t)
         IN IF Len(u) > 0 /\ u[1] = "json" THEN LStrip(Tail(u)) ELSE LStrip(u)
    ELSE t

\* line 519: whitespace and the closing fence go, then strip()
StripFenceClose(t) ==
  IF Len(t) > 0 /\ t[Len(t)] = "fence"
    THEN Strip(SubSeq(t, 1, Len(t) - 1))
    ELSE Strip(t)

StripFence(text) == StripFenceClose(StripFenceOpen(Strip(text)))

\* the characters { and } a token holds, as the depth counter sees them
Opens(tok) == IF tok = "{" THEN 1 ELSE 0
Closes(tok) == IF tok \in {"}", "k=brace"} THEN 1 ELSE 0

\* the inner loop "for e in range(s, len(t))": the first index where the
\* depth is back to zero, 0 when it never is
RECURSIVE MatchEnd(_, _, _)
MatchEnd(t, e, depth) ==
  IF e > Len(t) THEN 0
  ELSE LET d == depth + Opens(t[e])
       IN IF Closes(t[e]) = 1
            THEN IF d - 1 = 0 THEN e ELSE MatchEnd(t, e + 1, d - 1)
            ELSE MatchEnd(t, e + 1, d)

\* json.loads(t[s:e+1]) for the candidate that opens at s: a candidate cut
\* inside a string value (its last brace belongs to "k=brace") is no JSON
Candidate(t, s) ==
  LET e == MatchEnd(t, s, 0)
  IN IF e = 0 \/ t[e] # "}"
       THEN [ok |-> FALSE, val |-> JNone]
       ELSE json_loads(SubSeq(t, s, e))

\* variant: the first qualifying object is kept ("if best is None")
KeepFirst(best, obj) == IF best = JNone THEN obj ELSE best

\* if "action" in obj: best = obj
KeepLater(best, obj) == obj

\* the outer loop "for s in range(len(t))", carrying best
RECURSIVE ScanFrom(_, _, _)
ScanFrom(t, s, best) ==
  IF s > Len(t) THEN best
  ELSE IF t[s] # "{" THEN ScanFrom(t, s + 1, best)
  ELSE LET c == Candidate(t, s)
       IN IF c.ok /\ c.val.action # ABSENT
            THEN ScanFrom(t, s + 1, KeepLater(best, c.val))
            ELSE ScanFrom(t, s + 1, best)

parse_json(text) ==
  LET t == StripFence(text)
      whole == json_loads(t)
  IN IF whole.ok THEN whole.val ELSE ScanFrom(t, 1, JNone)

\* ---------------------------------------------------------------- trim_messages
\* messages[-MAX_HISTORY_MSGS:]
LastN(s, n) == IF n >= Len(s) THEN s ELSE SubSeq(s, Len(s) - n + 1, Len(s))

\* variant: the slice is one longer and takes the place of the system message
trim_messages_NoSystem(msgs) ==
  IF Len(msgs) <= MAX_HISTORY_MSGS + 1
    THEN msgs
    ELSE LastN(msgs, MAX_HISTORY_MSGS + 1)

\* variant: the message after the system message is kept as well
trim_messages_KeepTask(msgs) ==
  IF Len(msgs) <= MAX_HISTORY_MSGS + 1
    THEN msgs
    ELSE <<msgs[1], msgs[2]>> \o LastN(msgs, MAX_HISTORY_MSGS - 1)

trim_messages(msgs) ==
  IF Len(msgs) <= MAX_HISTORY_MSGS + 1
    THEN msgs
    ELSE <<msgs[1]>> \o LastN(msgs, MAX_HISTORY_MSGS)

\* ---------------------------------------------------------------- run_agent
VARIABLES
  pc,                 \* where the control thread of run_agent is
  step,               \* line 674
  consecutive_fails,  \* line 674
  messages,           \* line 669: the stored conversation
  raw,                \* the text the last call_model returned
  parsed,             \* parse_json(raw)
  attempt,            \* passes of the JSON retry loop made in this turn
  feedback,           \* which feedback text the last dispatch built
  calls,              \* history: call_model invocations so far
  cmds,               \* history: run_cmd invocations so far
  outcome,            \* how run_agent ended ("running" until it does)
  only_junk,          \* history: every call so far returned unparsable text
  view,               \* line 474: msgs, the view the last call_model sent
  reports,            \* the outcome reports printed so far, in order
  spinning,           \* the Spinner threads that are alive
  pj_text,            \* parse_json on its own: the argument text
  pj_result,          \* parse_json on its own: the value returned
  pj_pc,              \* parse_json on its own: "input", then "returned"
  pj_bare,            \* the decision object that pj_text wraps in a fence
  pj_bare_result,     \* the value parse_json returned for pj_bare
  pj_bare_pc,         \* "input", then "returned"
  rc_cmd,             \* run_cmd: the class of the command string
  rc_pc,              \* run_cmd: where the calling thread is
  rc_prog,            \* the stream each write of the process goes to, in order
  rc_ip,              \* how many of these writes the process has made
  rc_status,          \* the status the process ends with when it ends by itself
  rc_proc,            \* "none", "running", "exited" or "killed"
  rc_child,           \* a child of the process that inherited both pipes
  rc_pipe,            \* per stream: the lines written and not yet read
  rc_reader,          \* per stream: "unstarted", "reading", "done" or "died"
  rc_lines,           \* out_lines and err_lines
  rc_returncode,      \* proc.returncode
  rc_timed_out,       \* history: proc.wait raised TimeoutExpired
  rc_result,          \* the dictionary run_cmd returned
  ep_cache,           \* _ep_cache: per model, the stored pair or NotCached
  ep_probes,          \* history: per model, the probes sent to the service
  ep_ret,             \* the model and the value of the last detect_endpoint
  ep_calls,           \* history: the calls of detect_endpoint made
  tl_stdout,          \* result["stdout"], as a sequence of characters
  tl_stderr,          \* result["stderr"], as a sequence of characters
  tl_folded,          \* the stdout and stderr parts put into the feedback
  tl_pc               \* "idle", "result" (run_cmd returned) or "folded"

agentVars == <<pc, step, consecutive_fails, messages, raw, parsed, attempt,
               feedback, calls, cmds, outcome, only_junk, view, reports,
               spinning>>
bareVars == <<pj_bare, pj_bare_result, pj_bare_pc>>
parseVars == <<pj_text, pj_result, pj_pc, bareVars>>
threadVars == <<rc_cmd, rc_pc, rc_prog, rc_ip, rc_status, rc_proc, rc_child,
                rc_pipe, rc_reader, rc_lines, rc_returncode, rc_timed_out>>
cmdVars == <<threadVars, rc_result>>
epVars == <<ep_cache, ep_probes, ep_ret, ep_calls>>
tailVars == <<tl_stdout, tl_stderr, tl_folded, tl_pc>>
vars == <<agentVars, parseVars, cmdVars, epVars, tailVars>>

\* A message is [role, content]; content is the class of its text, and for
\* an assistant message that repeats generator text, which call produced it.
Msg(role, kind, id) == [role |-> role, content |-> [kind |-> kind, id |-> id]]
SystemMsg == Msg("system", "build_system_prompt", 0)
FirstMsg == Msg("user", "first_msg", 0)
ResumeMsg == Msg("user", "task_resume", 0)
RetryMsg == Msg("user", "RETRY_PROMPT", 0)
ApiErrorMsg == Msg("user", "api_error_retry", 0)
EmptyAssistantMsg == Msg("assistant", "empty", 0)
FeedbackMsg == Msg("user", "feedback", 0)
RawMsg(r) == Msg("assistant", "raw", r.id)

NoRaw == [id |-> 0, text |-> <<>>]

\* texts the generator may answer with
Obj(members) == <<"{">> \o members \o <<"}">>
RawTexts ==
  { <<"x">>,                                   \* prose only
    <<"null">>,
    <<"0">>,
    <<"[1]">>,
    Obj(<<>>),
    Obj(<<"c=ls">>),                           \* no action field
    Obj(<<"a=zap", ",", "c=ls">>),             \* unknown action value
    Obj(<<"a=run", ",", "c=ls">>),
    Obj(<<"a=run", ",", "c=">>),
    Obj(<<"a=run">>),
    Obj(<<"a=run", ",", "c=5">>),
    Obj(<<"a=done">>),
    Obj(<<"a=ask">>),
    Obj(<<"a=search">>),
    Obj(<<"a=fetch">>),
    <<"x">> \o Obj(<<"a=run", ",", "c=ls">>),  \* prose, then a decision
    <<"fence", "json", "ws">> \o Obj(<<"a=done">>) \o <<"ws", "fence">> }

\* parsed.get("action", "run")
GetAction(p) == IF p.action = ABSENT THEN "run" ELSE p.action
\* parsed.get("command", "")
GetCommand(p) == IF p.command = ABSENT THEN "" ELSE p.command

\* parsed is an object with a recognised action field (and, for run, a
\* non-empty command): what the decision schema calls a decision
KnownActions == {"run", "done", "ask", "search", "fetch"}
IsDecision(p) ==
  /\ p.t = "dict"
  /\ p.action \in KnownActions
  /\ p.action = "run" => p.command \notin {ABSENT, "", NONSTR}

\* ---------------------------------------------------------------- run_cmd: values
Streams == {"out", "err"}
\* a line of output, the note of line 557, the text str(e) of line 562
OutputLine(n) == [kind |-> "line", n |-> n]
\* a line holding bytes that are not text in the locale's encoding
\* (text=True, line 546, decodes strictly)
RawBytes(n) == [kind |-> "bytes", n |-> n]
TimedOutNote == [kind |-> "Timed out.", n |-> 0]
ErrorText == [kind |-> "str(e)", n |-> 0]
\* a line of output that holds one of the interactive markers of line 891
PromptLine == [kind |-> "[Y/n]", n |-> 0]
NoResult == [stdout |-> <<>>, stderr |-> <<>>, returncode |-> JAbsent]

\* the returncode of line 562
SPAWN_ERROR == -1

\* the elements of a sequence
Range(q) == {q[i] : i \in 1..Len(q)}

\* detect_endpoint: the models asked for, the calls made in a session
MaxModels == 3
MaxEpCalls == 4
Models == 1..MaxModels

\* lines 464, 466: the pairs (url path, mode) that are stored
ChatEndpoint == <<"/api/chat", "chat">>
GenerateEndpoint == <<"/api/generate", "generate">>
NotCached == <<>>
NoReturn == [model |-> 0, value |-> NotCached]

\* line 455: the cache is empty and detect_endpoint has not been called
EpIdle ==
  /\ ep_cache = [m \in Models |-> NotCached]
  /\ ep_probes = [m \in Models |-> 0]
  /\ ep_ret = NoReturn
  /\ ep_calls = 0

\* The stdout and stderr of a result are sequences of units of text; the
\* cut of lines 885-886 keeps or drops a unit whole, and the tail lengths
\* (2000 and 800 characters in the source) are scaled and counted in units.
STDOUT_TAIL == 3
STDERR_TAIL == 2

\* a unit that ends with the beginning of an interactive marker, and one
\* that begins with the rest of it
MarkerHead == [kind |-> "[Y/", n |-> 0]
MarkerTail == [kind |-> "n]", n |-> 0]

\* n units of ordinary output
Fill(n) == [i \in 1..n |-> OutputLine(i)]

\* variant: the first n characters are kept
TailOf_Head(text, n) ==
  IF Len(text) > n THEN SubSeq(text, 1, n) ELSE text

\* lines 885-886: text[-n:] if len(text) > n else text
TailOf(text, n) ==
  IF Len(text) > n THEN SubSeq(text, Len(text) - n + 1, Len(text)) ELSE text

\* lines 885-886: the stdout and stderr that go into the feedback text
Folded(out, err) ==
  [stdout |-> TailOf(out, STDOUT_TAIL), stderr |-> TailOf(err, STDERR_TAIL)]

\* lines 885-886: no result is being folded into feedback
NoFolded == [stdout |-> <<>>, stderr |-> <<>>]
TailIdle ==
  /\ tl_stdout = <<>>
  /\ tl_stderr = <<>>
  /\ tl_folded = NoFolded
  /\ tl_pc = "idle"

\* run_cmd is not running
CmdIdle ==
  /\ rc_cmd = "none"
  /\ rc_pc = "idle"
  /\ rc_prog = <<>>
  /\ rc_ip = 0
  /\ rc_status = 0
  /\ rc_proc = "none"
  /\ rc_child = "none"
  /\ rc_pipe = [s \in Streams |-> <<>>]
  /\ rc_reader = [s \in Streams |-> "unstarted"]
  /\ rc_lines = [s \in Streams |-> <<>>]
  /\ rc_returncode = JNone
  /\ rc_timed_out = FALSE
  /\ rc_result = NoResult

\* what the probe of lines 460-462 meets: status 200, another status, or an
\* exception (service down, timeout)
ProbeOutcomes == {"status_200", "other_status", "raises"}

\* lines 463-466: chat for status 200, generate otherwise
Probed(answer) ==
  IF answer = "status_200" THEN ChatEndpoint ELSE GenerateEndpoint

\* variant: the cache is never consulted
CacheHit_Never(cache, model) == FALSE

\* line 458: model in _ep_cache
CacheHit(cache, model) == cache[model] # NotCached

\* lines 457-458: the model is in the cache; the stored pair is returned
CachedReturn(model) ==
  /\ CacheHit(ep_cache, model)
  /\ ep_ret' = [model |-> model, value |-> ep_cache[model]]
  /\ ep_calls' = ep_calls + 1
  /\ UNCHANGED <<ep_cache, ep_probes>>

\* lines 457-466: the model is not in the cache; the service is probed and
\* the pair for the outcome is stored and returned
ProbeAndStore(model) ==
  /\ ~CacheHit(ep_cache, model)
  /\ \E answer \in ProbeOutcomes :
       ep_cache' = [ep_cache EXCEPT ![model] = Probed(answer)]
  /\ ep_probes' = [ep_probes EXCEPT ![model] = @ + 1]
  /\ ep_ret' = [model |-> model, value |-> ep_cache'[model]]
  /\ ep_calls' = ep_calls + 1

\* line 642: the model run_agent is called with
AgentModel == 1

\* line 642: run_agent is entered, in a process that has not called
\* detect_endpoint before
Init ==
  /\ pc = "connect"
  /\ step = 0
  /\ consecutive_fails = 0
  /\ messages = <<>>
  /\ raw = NoRaw
  /\ parsed = JNone
  /\ attempt = 0
  /\ feedback = "none"
  /\ calls = 0
  /\ cmds = 0
  /\ outcome = "running"
  /\ only_junk = TRUE
  /\ view = <<>>
  /\ reports = <<>>
  /\ spinning = 0
  /\ pj_text = <<>>
  /\ pj_result = JNone
  /\ pj_pc = "idle"
  /\ pj_bare = <<>>
  /\ pj_bare_result = JNone
  /\ pj_bare_pc = "idle"
  /\ CmdIdle
  /\ EpIdle
  /\ TailIdle

\* "if consecutive_fails >= 3" (lines 688 and 715)
FailLimitReached(n) == n >= FAIL_LIMIT

\* variant: the loop has no break
RetryLoopEnds_NoBreak(p, n) == n >= MAX_JSON_RETRIES

\* the retry loop is left: "if parsed: break", or range(MAX_JSON_RETRIES)
\* is used up after n passes
RetryLoopEnds(p, n) == Truthy(p) \/ n >= MAX_JSON_RETRIES

\* lines 193-197, Spinner.start(): a new thread is started, or
\* Thread.start() raises RuntimeError (no thread can be started) and the
\* exception leaves start() with no thread more alive
SpinnerStart(alive) ==
  { [raised |-> FALSE, alive |-> alive + 1],
    [raised |-> TRUE, alive |-> alive] }

\* lines 198-202, Spinner.stop(): the thread is told to stop and is joined
SpinnerStop(alive) == alive - 1

\* lines 941-942, reached when the while condition fails and after a break:
\* "Reached step limit" is printed
AfterLoop(printed) == Append(printed, "step_limit")

\* line 676: while step < MAX_ITERATIONS
LoopContinues(s) == s < MAX_ITERATIONS

\* line 670, build_system_prompt(): the prompt text, or the exception of one
\* of its calls (getpass.getuser, os.getcwd, a configuration that is not a
\* dictionary, custom instructions that are not a string)
PromptOutcomes == {"built", "raises"}

\* lines 643-645: the "Connecting" Spinner is started, detect_endpoint
\* gives url and mode (ep_ret), the Spinner is stopped; lines 647-674 set up
\* the conversation and the counters
Connect ==
  /\ pc = "connect"
  /\ \E spin \in SpinnerStart(spinning), prompt \in PromptOutcomes :
       IF spin.raised
       THEN /\ spinning' = spin.alive                     \* line 643 raises
            /\ messages' = messages
            /\ pc' = "end"
            /\ outcome' = "crash"
            /\ UNCHANGED epVars
       ELSE /\ CachedReturn(AgentModel) \/ ProbeAndStore(AgentModel)
            /\ spinning' = SpinnerStop(spin.alive)
            /\ IF prompt = "raises"
                 THEN /\ messages' = messages             \* line 670 raises
                      /\ pc' = "end"
                      /\ outcome' = "crash"
                 ELSE /\ messages' = <<SystemMsg, FirstMsg>>  \* lines 669-672
                      /\ pc' = "loop"
                      /\ outcome' = outcome
  /\ UNCHANGED <<step, consecutive_fails, raw, parsed, attempt, feedback,
                 calls, cmds, only_junk, view, reports>>
  /\ UNCHANGED <<parseVars, cmdVars, tailVars>>

\* lines 676-677 and, when the loop condition fails, 941-942
LoopHead ==
  /\ pc = "loop"
  /\ IF LoopContinues(step)
       THEN /\ step' = step + 1
            /\ pc' = "call"
            /\ outcome' = outcome
            /\ reports' = reports
       ELSE /\ step' = step
            /\ pc' = "end"
            /\ outcome' = "step_limit"
            /\ reports' = AfterLoop(reports)
  /\ attempt' = 0
  /\ spinning' = spinning
  /\ rc_result' = NoResult    \* result is read only in the turn that sets it
  /\ tl_stdout' = <<>>
  /\ tl_stderr' = <<>>
  /\ tl_folded' = NoFolded
  /\ tl_pc' = "idle"
  /\ UNCHANGED <<consecutive_fails, messages, raw, parsed, feedback, calls,
                 cmds, only_junk>>
  /\ UNCHANGED <<view, parseVars, threadVars, epVars>>

\* lines 680-682, 696-701: the Spinner is started and the first call of
\* the turn returns text; or Spinner.start() raises at line 680, outside
\* the try of line 681, before any call is made
CallModel ==
  /\ pc = "call"
  /\ \E spin \in SpinnerStart(spinning) :
       IF spin.raised
       THEN /\ spinning' = spin.alive
            /\ outcome' = "crash"
            /\ pc' = "end"
            /\ UNCHANGED <<raw, parsed, only_junk, calls, view>>
       ELSE /\ \E text \in RawTexts :
                 /\ raw' = [id |-> calls + 1, text |-> text]
                 /\ parsed' = parse_json(text)
                 /\ only_junk' = (only_junk /\ parse_json(text) = JNone)
            /\ calls' = calls + 1
            /\ pc' = IF parsed' = JNone
                       THEN (IF MAX_JSON_RETRIES > 0 THEN "retry" ELSE "no_json")
                       ELSE "dispatch"
            /\ outcome' = outcome
            /\ spinning' = SpinnerStop(spin.alive)       \* line 696
            /\ view' = trim_messages(messages)
  /\ UNCHANGED <<step, consecutive_fails, messages, attempt, feedback, cmds,
                 reports>>
  /\ UNCHANGED <<parseVars, cmdVars, epVars, tailVars>>

\* lines 686, 874 and 542: print of a text taken from the reply (the error
\* body, the reason, the command) writes it, or raises UnicodeEncodeError
\* when the text holds a character the terminal encoding has no bytes for
\* (a lone surrogate)
PrintOutcomes == {"printed", "raises"}

\* lines 680-695: the first call of the turn raises; the handler stops the
\* Spinner and prints the error (line 686), and when that print raises
\* inside the handler run_agent ends there, before the counter is touched
CallModelError ==
  /\ pc = "call"
  /\ calls' = calls + 1
  /\ only_junk' = FALSE
  /\ \E shown \in PrintOutcomes :
       IF shown = "raises"
       THEN /\ outcome' = "crash"                         \* line 686
            /\ pc' = "end"
            /\ UNCHANGED <<consecutive_fails, messages, reports>>
       ELSE /\ consecutive_fails' = consecutive_fails + 1
            /\ IF FailLimitReached(consecutive_fails + 1)
                 THEN /\ outcome' = "api_errors"
                      /\ pc' = "end"
                      /\ messages' = messages
                      /\ reports' = Append(reports, "api_errors")
                 ELSE /\ outcome' = outcome
                      /\ pc' = "loop"
                      /\ messages' = messages \o <<EmptyAssistantMsg, ApiErrorMsg>>
                      /\ reports' = reports
  /\ UNCHANGED <<step, raw, parsed, attempt, feedback, cmds>>
  /\ \E spin \in SpinnerStart(spinning) :              \* lines 680, 685
       ~spin.raised /\ spinning' = SpinnerStop(spin.alive)
  /\ view' = trim_messages(messages)
  /\ UNCHANGED <<parseVars, cmdVars, epVars, tailVars>>

\* lines 702-710: one pass of the retry loop whose call returns text
JsonRetry ==
  /\ pc = "retry"
  /\ messages' = messages \o <<RawMsg(raw), RetryMsg>>
  /\ \E text \in RawTexts :
       /\ raw' = [id |-> calls + 1, text |-> text]
       /\ parsed' = parse_json(text)
       /\ only_junk' = (only_junk /\ parse_json(text) = JNone)
  /\ calls' = calls + 1
  /\ attempt' = attempt + 1
  /\ pc' = IF RetryLoopEnds(parsed', attempt + 1)
             THEN (IF parsed' = JNone THEN "no_json" ELSE "dispatch")
             ELSE "retry"
  /\ UNCHANGED <<step, consecutive_fails, feedback, cmds, outcome, reports>>
  /\ \E spin \in SpinnerStart(spinning) :              \* lines 706, 708
       ~spin.raised /\ spinning' = SpinnerStop(spin.alive)
  /\ view' = trim_messages(messages')
  /\ UNCHANGED <<parseVars, cmdVars, epVars, tailVars>>

\* lines 704-707: after the pair is appended, Spinner.start() raises at
\* line 706 (no call is made, no Spinner is alive), or the call of line 707
\* raises with the Spinner of line 706 running; nothing catches either
JsonRetryError ==
  /\ pc = "retry"
  /\ messages' = messages \o <<RawMsg(raw), RetryMsg>>
  /\ \E spin \in SpinnerStart(spinning) :
       /\ spinning' = spin.alive
       /\ IF spin.raised
            THEN UNCHANGED <<calls, only_junk, view>>
            ELSE /\ calls' = calls + 1
                 /\ only_junk' = FALSE
                 /\ view' = trim_messages(messages')
  /\ outcome' = "crash"
  /\ pc' = "end"
  /\ UNCHANGED <<step, consecutive_fails, raw, parsed, attempt, feedback, cmds,
                 reports>>
  /\ UNCHANGED <<parseVars, cmdVars, epVars, tailVars>>

\* variant: the index is off by one
HardReset_WrongIndex(msgs) == <<msgs[2], ResumeMsg>>

\* lines 718-720: messages = [messages[0], {"role":"user", "content": ...}]
HardReset(msgs) == <<msgs[1], ResumeMsg>>

\* lines 712-721: the turn has no JSON; at the ceiling the report is printed
\* and "break" leaves the loop for lines 941-942
NoJson ==
  /\ pc = "no_json"
  /\ consecutive_fails' = consecutive_fails + 1
  /\ IF FailLimitReached(consecutive_fails + 1)
       THEN /\ outcome' = "parse_failures"
            /\ pc' = "end"
            /\ messages' = messages
            /\ reports' = AfterLoop(Append(reports, "consecutive_failures"))
       ELSE /\ outcome' = outcome
            /\ pc' = "loop"
            /\ messages' = HardReset(messages)
            /\ reports' = reports
  /\ UNCHANGED <<step, raw, parsed, attempt, feedback, calls, cmds, only_junk,
                 spinning>>
  /\ UNCHANGED <<view, parseVars, cmdVars, epVars, tailVars>>

\* ---------------------------------------------------------------- dispatch
\* variant: the trimmed view is stored back
WithFeedback_Trimmed(msgs, r) == trim_messages(msgs) \o <<RawMsg(r), FeedbackMsg>>

\* variant: the feedback is appended without the assistant text
WithFeedback_UserOnly(msgs, r) == msgs \o <<FeedbackMsg>>

\* variant: the feedback is appended before the assistant text
WithFeedback_Swapped(msgs, r) == msgs \o <<FeedbackMsg, RawMsg(r)>>

\* messages += [{"role":"assistant","content":raw}, {"role":"user","content":...}]
WithFeedback(msgs, r) == msgs \o <<RawMsg(r), FeedbackMsg>>

\* the turn ends with feedback fb appended; "continue" or the end of the body
Continue(fb) ==
  /\ messages' = WithFeedback(messages, raw)
  /\ feedback' = fb
  /\ pc' = "loop"
  /\ outcome' = outcome
  /\ reports' = reports
  /\ spinning' = spinning

\* an exception nothing in run_agent catches
Crash ==
  /\ outcome' = "crash"
  /\ pc' = "end"
  /\ UNCHANGED <<messages, feedback, reports, spinning>>

\* classes of the text fields a decision carries, read with parsed.get(...)
QuestionKinds == {"confirmation", "other", "not_a_string"}
QueryKinds == {"empty", "text", "not_a_string"}
UrlKinds == {"invalid", "http", "not_a_string"}
WebOutcomes == {"unavailable", "results", "no_results"}
\* what run_cmd returns, as far as lines 883-937 tell results apart: exit 0,
\* exit 0 with an interactive marker in the output, a non-zero exit with and
\* without one, a timeout that killed the process (returncode None), a
\* timeout that found the process ended (its own status), an exception
RunResults ==
  { [stdout |-> <<>>, stderr |-> <<>>, returncode |-> JNum(0)],
    [stdout |-> <<PromptLine>>, stderr |-> <<>>, returncode |-> JNum(0)],
    [stdout |-> <<>>, stderr |-> <<>>, returncode |-> JNum(1)],
    [stdout |-> <<PromptLine>>, stderr |-> <<>>, returncode |-> JNum(1)],
    [stdout |-> <<>>, stderr |-> <<TimedOutNote>>, returncode |-> JNone],
    [stdout |-> <<>>, stderr |-> <<TimedOutNote>>, returncode |-> JNum(0)],
    [stdout |-> <<>>, stderr |-> <<ErrorText>>, returncode |-> JNum(SPAWN_ERROR)],
    \* a marker followed by more output than the tail keeps, on either stream
    [stdout |-> <<PromptLine>> \o Fill(STDOUT_TAIL), stderr |-> <<>>,
     returncode |-> JNum(0)],
    [stdout |-> <<>>, stderr |-> <<PromptLine>> \o Fill(STDERR_TAIL),
     returncode |-> JNum(0)],
    \* a marker that begins at the end of stdout and ends in stderr
    [stdout |-> <<MarkerHead>>, stderr |-> <<MarkerTail>>,
     returncode |-> JNum(0)] }

\* lines 723-724 when parsed has no .get: AttributeError
DispatchNotObject ==
  /\ pc = "dispatch"
  /\ parsed.t # "dict"
  /\ consecutive_fails' = 0
  /\ Crash
  /\ UNCHANGED <<step, raw, parsed, attempt, calls, cmds, only_junk>>
  /\ UNCHANGED <<view, parseVars, cmdVars, epVars, tailVars>>

\* what input() gives (lines 733, 756): a line, or EOFError when stdin is
\* at its end
HumanInputs == {"line", "eof"}
\* lines 734-737: the answer is not "y"; it is "y" and the task is saved;
\* it is "y" and load_config/save_config raises
SaveOutcomes == {"not_asked_for", "saved", "raises"}

\* lines 727-740: the report is printed, then the human is asked whether
\* to save the task; input() and the saving are not guarded
DispatchDone ==
  /\ pc = "dispatch"
  /\ parsed.t = "dict"
  /\ GetAction(parsed) = "done"
  /\ consecutive_fails' = 0
  /\ \E h \in HumanInputs, save \in SaveOutcomes :
       outcome' = IF h = "eof" \/ save = "raises" THEN "crash" ELSE "done"
  /\ pc' = "end"
  /\ reports' = Append(reports, "task_complete")
  /\ spinning' = spinning
  /\ UNCHANGED <<step, messages, raw, parsed, attempt, feedback, calls, cmds,
                 only_junk>>
  /\ UNCHANGED <<view, parseVars, cmdVars, epVars, tailVars>>

\* lines 743-760
DispatchAsk ==
  /\ pc = "dispatch"
  /\ parsed.t = "dict"
  /\ GetAction(parsed) = "ask"
  /\ consecutive_fails' = 0
  /\ \E q \in QuestionKinds :
       CASE q = "not_a_string" -> Crash
         [] q = "confirmation" -> Continue("auto_yes")
         [] q = "other" ->
              \E h \in HumanInputs :
                IF h = "eof" THEN Crash ELSE Continue("human_answer")
  /\ UNCHANGED <<step, raw, parsed, attempt, calls, cmds, only_junk>>
  /\ UNCHANGED <<view, parseVars, cmdVars, epVars, tailVars>>

\* lines 763-841
DispatchSearch ==
  /\ pc = "dispatch"
  /\ parsed.t = "dict"
  /\ GetAction(parsed) = "search"
  /\ consecutive_fails' = 0
  /\ \E query \in QueryKinds :
       CASE query = "not_a_string" -> Crash
         [] query = "empty" -> Continue("empty_query")
         [] query = "text" ->
              \E web \in WebOutcomes, spin \in SpinnerStart(spinning) :
                CASE web = "unavailable" -> Continue("web_unavailable")
                  [] web # "unavailable" /\ spin.raised -> Crash  \* line 811
                  [] web = "results" /\ ~spin.raised ->
                       Continue("search_results")
                  [] web = "no_results" /\ ~spin.raised ->
                       Continue("search_no_results")
  /\ UNCHANGED <<step, raw, parsed, attempt, calls, cmds, only_junk>>
  /\ UNCHANGED <<view, parseVars, cmdVars, epVars, tailVars>>

\* lines 844-867; web_fetch catches its errors, so the Spinner of line 856
\* is stopped at line 858
DispatchFetch ==
  /\ pc = "dispatch"
  /\ parsed.t = "dict"
  /\ GetAction(parsed) = "fetch"
  /\ consecutive_fails' = 0
  /\ \E url \in UrlKinds :
       CASE url = "not_a_string" -> Crash
         [] url = "invalid" -> Continue("invalid_url")
         [] url = "http" ->
              \E spin \in SpinnerStart(spinning) :
                IF spin.raised THEN Crash                 \* line 856
                               ELSE Continue("fetched")
  /\ UNCHANGED <<step, raw, parsed, attempt, calls, cmds, only_junk>>
  /\ UNCHANGED <<view, parseVars, cmdVars, epVars, tailVars>>

\* the else branch of line 870: every other action value is a run
IsRunBranch(p) == GetAction(p) \notin {"done", "ask", "search", "fetch"}

\* line 876: "if not cmd", cmd being the stripped command string
NoCommand(cmd) == cmd = ""

\* lines 871-880: the command is not a string (AttributeError on .strip())
\* or is empty
DispatchRunNoCommand ==
  /\ pc = "dispatch"
  /\ parsed.t = "dict"
  /\ IsRunBranch(parsed)
  /\ GetCommand(parsed) = NONSTR \/ NoCommand(GetCommand(parsed))
  /\ consecutive_fails' = 0
  /\ IF GetCommand(parsed) = NONSTR
       THEN Crash                                         \* line 871
       ELSE \E reason \in PrintOutcomes :
              IF reason = "raises"
              THEN Crash                                  \* line 874
              ELSE Continue("empty_command")              \* lines 876-880
  /\ UNCHANGED <<step, raw, parsed, attempt, calls, cmds, only_junk>>
  /\ UNCHANGED <<view, parseVars, cmdVars, epVars, tailVars>>

\* lines 891-892: any(marker in (stdout + stderr) ...), the marker whole in
\* one unit or split over two adjacent ones
HasMarker(text) ==
  \E i \in 1..Len(text) :
    \/ text[i] = PromptLine
    \/ i < Len(text) /\ text[i] = MarkerHead /\ text[i + 1] = MarkerTail

\* lines 883-937: the feedback for a command result; the marker test reads
\* the two tails of lines 885-886, concatenated
RunFeedback(result) ==
  LET ok == result.returncode = JNum(0)
      cut == Folded(result.stdout, result.stderr)
      has_interactive_prompt == HasMarker(cut.stdout \o cut.stderr)
  IN IF ok
       THEN IF has_interactive_prompt THEN "waiting_for_input" ELSE "success"
       ELSE "failed"

\* lines 882-939: run_cmd(cmd) and its feedback
DispatchRun ==
  /\ pc = "dispatch"
  /\ parsed.t = "dict"
  /\ IsRunBranch(parsed)
  /\ GetCommand(parsed) # NONSTR
  /\ ~NoCommand(GetCommand(parsed))
  /\ consecutive_fails' = 0
  /\ \E reason \in PrintOutcomes, header \in PrintOutcomes :
       IF reason = "raises"
       THEN /\ cmds' = cmds                               \* line 874
            /\ Crash
            /\ UNCHANGED <<rc_result, tailVars>>
       ELSE /\ cmds' = cmds + 1                           \* line 882
            /\ IF header = "raises"
                 THEN /\ Crash                            \* line 542
                      /\ UNCHANGED <<rc_result, tailVars>>
                 ELSE \E result \in RunResults :
                        /\ rc_result' = result
                        /\ tl_stdout' = result.stdout
                        /\ tl_stderr' = result.stderr
                        /\ tl_folded' = Folded(result.stdout, result.stderr)
                        /\ tl_pc' = "folded"
                        /\ Continue(RunFeedback(result))
  /\ UNCHANGED <<step, raw, parsed, attempt, calls, only_junk>>
  /\ UNCHANGED <<view, parseVars, threadVars, epVars>>

Next ==
  \/ Connect
  \/ LoopHead
  \/ CallModel
  \/ CallModelError
  \/ JsonRetry
  \/ JsonRetryError
  \/ NoJson
  \/ DispatchNotObject
  \/ DispatchDone
  \/ DispatchAsk
  \/ DispatchSearch
  \/ DispatchFetch
  \/ DispatchRunNoCommand
  \/ DispatchRun

Spec == Init /\ [][Next]_vars

\* ---------------------------------------------------------------- parse_json on its own
\* bounds of the texts parse_json is applied to
MaxTextLen == 3
MaxSegs == 3

ParseAlphabet ==
  {"{", "}", ",", "a=run", "a=done", "c=ls", "k=1", "k=", "k=brace",
   "null", "[1]", "x", "ws", "ff", "fence", "json"}

\* every text of at most MaxTextLen tokens
ShortTexts == UNION {[1..n -> ParseAlphabet] : n \in 0..MaxTextLen}

\* pieces of generator text: prose, objects with and without the action
\* field, nested objects, objects that do not parse, stray braces, fences
Segments ==
  { <<"x">>,
    <<"ws">>,
    <<"ff">>,
    <<"fence">>,
    <<"fence", "json">>,
    <<"{">>,
    <<"}">>,
    <<"null">>,
    Obj(<<"a=run", ",", "c=ls">>),
    Obj(<<"a=done">>),
    Obj(<<"k=1">>),
    Obj(<<"ff", "a=done", "ff">>),
    Obj(<<"a=ask", ",">>),
    Obj(<<"a=fetch", ",", "k=brace">>),
    Obj(<<"k=">> \o Obj(<<"a=search">>)),
    Obj(<<"a=run", ",", "k=">> \o Obj(<<"a=done">>)) }

RECURSIVE SegTexts(_)
SegTexts(n) ==
  IF n = 0 THEN {<<>>}
  ELSE LET shorter == SegTexts(n - 1)
       IN shorter \cup {a \o b : a \in shorter, b \in Segments}

ParseInputs == ShortTexts \cup SegTexts(MaxSegs)

InitParse ==
  /\ pc = "off"
  /\ step = 0
  /\ consecutive_fails = 0
  /\ messages = <<SystemMsg, FirstMsg>>
  /\ raw = NoRaw
  /\ parsed = JNone
  /\ attempt = 0
  /\ feedback = "none"
  /\ calls = 0
  /\ cmds = 0
  /\ outcome = "running"
  /\ only_junk = TRUE
  /\ view = <<>>
  /\ reports = <<>>
  /\ spinning = 0
  /\ pj_text \in ParseInputs
  /\ pj_result = JNone
  /\ pj_pc = "input"
  /\ pj_bare = <<>>
  /\ pj_bare_result = JNone
  /\ pj_bare_pc = "idle"
  /\ CmdIdle
  /\ EpIdle
  /\ TailIdle

\* lines 517-536: one call parse_json(text)
ParseJson ==
  /\ pj_pc = "input"
  /\ pj_result' = parse_json(pj_text)
  /\ pj_pc' = "returned"
  /\ UNCHANGED <<agentVars, pj_text, bareVars, cmdVars, epVars, tailVars>>

NextParse == ParseJson

SpecParse == InitParse /\ [][NextParse]_vars

\* ---------------------------------------------------------------- parse_json on fenced text
\* bound of the whitespace runs around and inside the fence
MaxWs == 2

\* decision objects as the system prompt shows them, some with further
\* members: a string holding a brace, a nested object, a nested decision
DecisionObjects ==
  { Obj(<<"a=run", ",", "c=ls">>),
    Obj(<<"a=done">>),
    Obj(<<"a=ask">>),
    Obj(<<"a=search">>),
    Obj(<<"a=fetch">>),
    Obj(<<"ws", "a=done", "ws">>),
    Obj(<<"a=done", ",", "k=1">>),
    Obj(<<"a=fetch", ",", "k=brace">>),
    Obj(<<"a=ask", ",", "k=">> \o Obj(<<"k=1">>)),
    Obj(<<"a=run", ",", "c=ls", ",", "k=">> \o Obj(<<"a=done">>)) }

\* a run of n whitespace tokens of one kind, and the runs of either kind
Ws(tok, n) == [i \in 1..n |-> tok]
WsRuns == {Ws(tok, n) : tok \in SpaceTokens, n \in 0..MaxWs}

\* d inside a fenced block: whitespace, the opening fence with or without
\* the json tag, whitespace, d, whitespace, the closing fence, whitespace
Wrap(lead, tag, gap, d, gap2, trail) ==
  lead \o <<"fence">> \o (IF tag THEN <<"json">> ELSE <<>>) \o gap
    \o d \o gap2 \o <<"fence">> \o trail

InitFence ==
  /\ pc = "off"
  /\ step = 0
  /\ consecutive_fails = 0
  /\ messages = <<SystemMsg, FirstMsg>>
  /\ raw = NoRaw
  /\ parsed = JNone
  /\ attempt = 0
  /\ feedback = "none"
  /\ calls = 0
  /\ cmds = 0
  /\ outcome = "running"
  /\ only_junk = TRUE
  /\ view = <<>>
  /\ reports = <<>>
  /\ spinning = 0
  /\ pj_bare \in DecisionObjects
  /\ \E lead \in WsRuns, gap \in WsRuns, gap2 \in WsRuns,
        trail \in WsRuns, tag \in BOOLEAN :
       pj_text = Wrap(lead, tag, gap, pj_bare, gap2, trail)
  /\ pj_result = JNone
  /\ pj_pc = "input"
  /\ pj_bare_result = JNone
  /\ pj_bare_pc = "input"
  /\ CmdIdle
  /\ EpIdle
  /\ TailIdle

\* lines 517-536: one call parse_json(d) on the text without the fence
ParseBare ==
  /\ pj_bare_pc = "input"
  /\ pj_bare_result' = parse_json(pj_bare)
  /\ pj_bare_pc' = "returned"
  /\ UNCHANGED <<agentVars, pj_text, pj_result, pj_pc, pj_bare, cmdVars,
                 epVars, tailVars>>

NextFence ==
  \/ ParseJson
  \/ ParseBare

SpecFence == InitFence /\ [][NextFence]_vars

\* ---------------------------------------------------------------- run_cmd
\* bounds: the writes a process makes, the lines a pipe buffer holds
MaxLines == 3
PipeCap == 1

\* what subprocess reports for a process that ended by itself: its exit
\* code (127 is the shell's "not found"), or minus the number of the signal
\* that ended it (-1 is SIGHUP)
ExitStatuses == {0, 1, 127, -1}

\* the writes of a process, as the streams they go to
Programs == UNION {[1..n -> Streams] : n \in 0..MaxLines}

\* shell=True: the shell is the process.  For a command naming a program
\* or interpreter that does not exist the shell starts, writes "not found"
\* to stderr and exits 127.  A command with binary output writes lines
\* that are not text.  An unprintable command holds a character that the
\* terminal encoding cannot write (a lone surrogate).
CmdKinds == {"program", "no_such_interpreter", "binary_output", "unprintable"}

InitCmd ==
  /\ pc = "off"
  /\ step = 0
  /\ consecutive_fails = 0
  /\ messages = <<SystemMsg, FirstMsg>>
  /\ raw = NoRaw
  /\ parsed = JNone
  /\ attempt = 0
  /\ feedback = "none"
  /\ calls = 0
  /\ cmds = 0
  /\ outcome = "running"
  /\ only_junk = TRUE
  /\ view = <<>>
  /\ reports = <<>>
  /\ spinning = 0
  /\ pj_text = <<>>
  /\ pj_result = JNone
  /\ pj_pc = "idle"
  /\ pj_bare = <<>>
  /\ pj_bare_result = JNone
  /\ pj_bare_pc = "idle"
  /\ rc_cmd \in CmdKinds
  /\ CASE rc_cmd = "no_such_interpreter" -> rc_prog = <<"err">> /\ rc_status = 127
       [] rc_cmd = "unprintable" -> rc_prog = <<>> /\ rc_status = 0
       [] OTHER -> rc_prog \in Programs /\ rc_status \in ExitStatuses
  /\ rc_pc = "print"
  /\ rc_ip = 0
  /\ rc_proc = "none"
  /\ rc_child = "none"
  /\ rc_pipe = [s \in Streams |-> <<>>]
  /\ rc_reader = [s \in Streams |-> "unstarted"]
  /\ rc_lines = [s \in Streams |-> <<>>]
  /\ rc_returncode = JNone
  /\ rc_timed_out = FALSE
  /\ rc_result = NoResult
  /\ EpIdle
  /\ TailIdle

\* line 566
Result(code) ==
  [stdout |-> rc_lines["out"], stderr |-> rc_lines["err"], returncode |-> code]

\* line 542: the command is printed as the header of its output
PrintHeader ==
  /\ rc_pc = "print"
  /\ rc_cmd # "unprintable"
  /\ rc_pc' = "popen"
  /\ UNCHANGED <<rc_cmd, rc_prog, rc_ip, rc_status, rc_proc, rc_child,
                 rc_pipe, rc_reader, rc_lines, rc_returncode, rc_timed_out,
                 rc_result>>
  /\ UNCHANGED <<agentVars, parseVars, epVars, tailVars>>

\* line 542: print raises UnicodeEncodeError; the statement is outside the
\* try of lines 544-563, so run_cmd raises: no process, no thread, no result
PrintHeaderRaises ==
  /\ rc_pc = "print"
  /\ rc_cmd = "unprintable"
  /\ rc_pc' = "raised"
  /\ UNCHANGED <<rc_cmd, rc_prog, rc_ip, rc_status, rc_proc, rc_child,
                 rc_pipe, rc_reader, rc_lines, rc_returncode, rc_timed_out,
                 rc_result>>
  /\ UNCHANGED <<agentVars, parseVars, epVars, tailVars>>

\* lines 545-546: the process is started
Popen ==
  /\ rc_pc = "popen"
  /\ rc_proc' = "running"
  /\ rc_pc' = "start"
  /\ UNCHANGED <<rc_cmd, rc_prog, rc_ip, rc_status, rc_child, rc_pipe,
                 rc_reader, rc_lines, rc_returncode, rc_timed_out, rc_result>>
  /\ UNCHANGED <<agentVars, parseVars, epVars, tailVars>>

\* line 545: Popen (or os.getcwd) raises; control goes to the handler
PopenFails ==
  /\ rc_pc = "popen"
  /\ rc_pc' = "handler"
  /\ UNCHANGED <<rc_cmd, rc_prog, rc_ip, rc_status, rc_proc, rc_child,
                 rc_pipe, rc_reader, rc_lines, rc_returncode, rc_timed_out,
                 rc_result>>
  /\ UNCHANGED <<agentVars, parseVars, epVars, tailVars>>

\* line 554, to.start(): the stdout reader is started and runs
StartOut ==
  /\ rc_pc = "start"
  /\ rc_reader' = [rc_reader EXCEPT !["out"] = "reading"]
  /\ rc_pc' = "start_err"
  /\ UNCHANGED <<rc_cmd, rc_prog, rc_ip, rc_status, rc_proc, rc_child,
                 rc_pipe, rc_lines, rc_returncode, rc_timed_out, rc_result>>
  /\ UNCHANGED <<agentVars, parseVars, epVars, tailVars>>

\* line 554, to.start() raises (no thread can be started); control goes to
\* the handler with the process running and neither reader started
StartOutFails ==
  /\ rc_pc = "start"
  /\ rc_pc' = "handler"
  /\ UNCHANGED <<rc_cmd, rc_prog, rc_ip, rc_status, rc_proc, rc_child,
                 rc_pipe, rc_reader, rc_lines, rc_returncode, rc_timed_out,
                 rc_result>>
  /\ UNCHANGED <<agentVars, parseVars, epVars, tailVars>>

\* line 554, te.start(): the stderr reader is started
StartErr ==
  /\ rc_pc = "start_err"
  /\ rc_reader' = [rc_reader EXCEPT !["err"] = "reading"]
  /\ rc_pc' = "wait"
  /\ UNCHANGED <<rc_cmd, rc_prog, rc_ip, rc_status, rc_proc, rc_child,
                 rc_pipe, rc_lines, rc_returncode, rc_timed_out, rc_result>>
  /\ UNCHANGED <<agentVars, parseVars, epVars, tailVars>>

\* line 554, te.start() raises (no thread can be started); control goes to
\* the handler, past the joins of line 559
StartErrFails ==
  /\ rc_pc = "start_err"
  /\ rc_pc' = "handler"
  /\ UNCHANGED <<rc_cmd, rc_prog, rc_ip, rc_status, rc_proc, rc_child,
                 rc_pipe, rc_reader, rc_lines, rc_returncode, rc_timed_out,
                 rc_result>>
  /\ UNCHANGED <<agentVars, parseVars, epVars, tailVars>>

\* lines 561-563: code = -1; err_lines.append(str(e))
Handler ==
  /\ rc_pc = "handler"
  /\ rc_lines' = [rc_lines EXCEPT !["err"] = Append(@, ErrorText)]
  /\ rc_pc' = "return_error"
  /\ UNCHANGED <<rc_cmd, rc_prog, rc_ip, rc_status, rc_proc, rc_child,
                 rc_pipe, rc_reader, rc_returncode, rc_timed_out, rc_result>>
  /\ UNCHANGED <<agentVars, parseVars, epVars, tailVars>>

\* lines 564-566 after the handler: the result is built from the lists as
\* they are now and returned with code -1
ReturnError ==
  /\ rc_pc = "return_error"
  /\ rc_result' = Result(JNum(SPAWN_ERROR))
  /\ rc_pc' = "done"
  /\ UNCHANGED <<rc_cmd, rc_prog, rc_ip, rc_status, rc_proc, rc_child,
                 rc_pipe, rc_reader, rc_lines, rc_returncode, rc_timed_out>>
  /\ UNCHANGED <<agentVars, parseVars, epVars, tailVars>>

\* line 555: proc.wait returns because the process has ended
WaitReturns ==
  /\ rc_pc = "wait"
  /\ rc_proc = "exited"
  /\ rc_returncode' = JNum(rc_status)
  /\ rc_pc' = "join_out"
  /\ UNCHANGED <<rc_cmd, rc_prog, rc_ip, rc_status, rc_proc, rc_child,
                 rc_pipe, rc_reader, rc_lines, rc_timed_out, rc_result>>
  /\ UNCHANGED <<agentVars, parseVars, epVars, tailVars>>

\* lines 555-556: the timeout passes with the process still running
WaitTimesOut ==
  /\ rc_pc = "wait"
  /\ rc_proc = "running"
  /\ rc_timed_out' = TRUE
  /\ rc_pc' = "kill"
  /\ UNCHANGED <<rc_cmd, rc_prog, rc_ip, rc_status, rc_proc, rc_child,
                 rc_pipe, rc_reader, rc_lines, rc_returncode, rc_result>>
  /\ UNCHANGED <<agentVars, parseVars, epVars, tailVars>>

\* line 557, proc.kill(): Popen.send_signal polls first; a process that has
\* ended meanwhile is reaped and its status stored, otherwise SIGKILL goes
\* to the shell (not to its children) and returncode is left as it was
Kill ==
  /\ rc_pc = "kill"
  /\ IF rc_proc = "exited"
       THEN rc_returncode' = JNum(rc_status) /\ rc_proc' = rc_proc
       ELSE rc_returncode' = rc_returncode /\ rc_proc' = "killed"
  /\ rc_pc' = "note"
  /\ UNCHANGED <<rc_cmd, rc_prog, rc_ip, rc_status, rc_child, rc_pipe,
                 rc_reader, rc_lines, rc_timed_out, rc_result>>
  /\ UNCHANGED <<agentVars, parseVars, epVars, tailVars>>

\* line 557, proc.kill() raises (the signal is not permitted): control goes
\* to the handler, past the note and the joins, with the process running
\* and the readers as they are
KillFails ==
  /\ rc_pc = "kill"
  /\ rc_proc = "running"
  /\ rc_pc' = "handler"
  /\ UNCHANGED <<rc_cmd, rc_prog, rc_ip, rc_status, rc_proc, rc_child,
                 rc_pipe, rc_reader, rc_lines, rc_returncode, rc_timed_out,
                 rc_result>>
  /\ UNCHANGED <<agentVars, parseVars, epVars, tailVars>>

\* line 557: err_lines.append("Timed out.")
AppendNote ==
  /\ rc_pc = "note"
  /\ rc_lines' = [rc_lines EXCEPT !["err"] = Append(@, TimedOutNote)]
  /\ rc_pc' = "join_out"
  /\ UNCHANGED <<rc_cmd, rc_prog, rc_ip, rc_status, rc_proc, rc_child,
                 rc_pipe, rc_reader, rc_returncode, rc_timed_out, rc_result>>
  /\ UNCHANGED <<agentVars, parseVars, epVars, tailVars>>

\* a thread that ended, by returning or by an uncaught error, can be joined
Joinable(s) == rc_reader[s] \in {"done", "died"}

\* line 559: to.join()
JoinOut ==
  /\ rc_pc = "join_out"
  /\ Joinable("out")
  /\ rc_pc' = "join_err"
  /\ UNCHANGED <<rc_cmd, rc_prog, rc_ip, rc_status, rc_proc, rc_child,
                 rc_pipe, rc_reader, rc_lines, rc_returncode, rc_timed_out,
                 rc_result>>
  /\ UNCHANGED <<agentVars, parseVars, epVars, tailVars>>

\* lines 559-566: te.join(), code = proc.returncode, the result is returned
JoinErrAndReturn ==
  /\ rc_pc = "join_err"
  /\ Joinable("err")
  /\ rc_result' = Result(rc_returncode)
  /\ rc_pc' = "done"
  /\ UNCHANGED <<rc_cmd, rc_prog, rc_ip, rc_status, rc_proc, rc_child,
                 rc_pipe, rc_reader, rc_lines, rc_returncode, rc_timed_out>>
  /\ UNCHANGED <<agentVars, parseVars, epVars, tailVars>>

\* lines 552-554: each stream has a thread of its own
ReaderCanRun(s) == rc_reader[s] = "reading"

\* every write end of the pipes is closed: the process is gone and no
\* child holds a copy
WriteEndsClosed == rc_proc \in {"exited", "killed"} /\ rc_child # "holding"

\* lines 548-550: the reader of stream s takes a line from the pipe; the
\* list is the one the caller thread appends its notes to
ReaderRead(s) ==
  /\ ReaderCanRun(s)
  /\ rc_pipe[s] # <<>>
  /\ Head(rc_pipe[s]).kind = "line"
  /\ rc_lines' = [rc_lines EXCEPT ![s] = Append(@, Head(rc_pipe[s]))]
  /\ rc_pipe' = [rc_pipe EXCEPT ![s] = Tail(@)]
  /\ UNCHANGED <<rc_cmd, rc_pc, rc_prog, rc_ip, rc_status, rc_proc, rc_child,
                 rc_reader, rc_returncode, rc_timed_out, rc_result>>
  /\ UNCHANGED <<agentVars, parseVars, epVars, tailVars>>

\* line 548: 'for raw in stream' takes bytes it cannot decode; the
\* UnicodeDecodeError ends the reader thread, the bytes taken are lost, and
\* the stream is left open and unread
ReaderDecodeError(s) ==
  /\ ReaderCanRun(s)
  /\ rc_pipe[s] # <<>>
  /\ Head(rc_pipe[s]).kind = "bytes"
  /\ rc_reader' = [rc_reader EXCEPT ![s] = "died"]
  /\ rc_pipe' = [rc_pipe EXCEPT ![s] = Tail(@)]
  /\ UNCHANGED <<rc_cmd, rc_pc, rc_prog, rc_ip, rc_status, rc_proc, rc_child,
                 rc_lines, rc_returncode, rc_timed_out, rc_result>>
  /\ UNCHANGED <<agentVars, parseVars, epVars, tailVars>>

\* lines 548, 551: the reader of stream s meets end of file and ends
ReaderEOF(s) ==
  /\ ReaderCanRun(s)
  /\ rc_pipe[s] = <<>>
  /\ WriteEndsClosed
  /\ rc_reader' = [rc_reader EXCEPT ![s] = "done"]
  /\ UNCHANGED <<rc_cmd, rc_pc, rc_prog, rc_ip, rc_status, rc_proc, rc_child,
                 rc_pipe, rc_lines, rc_returncode, rc_timed_out, rc_result>>
  /\ UNCHANGED <<agentVars, parseVars, epVars, tailVars>>

\* the n-th line the process writes
Written(n) == IF rc_cmd = "binary_output" THEN RawBytes(n) ELSE OutputLine(n)

\* the process makes its next write; it can when the pipe has room
ProcWrite ==
  /\ rc_proc = "running"
  /\ rc_ip < Len(rc_prog)
  /\ LET s == rc_prog[rc_ip + 1]
     IN /\ Len(rc_pipe[s]) < PipeCap
        /\ rc_pipe' = [rc_pipe EXCEPT ![s] = Append(@, Written(rc_ip + 1))]
  /\ rc_ip' = rc_ip + 1
  /\ UNCHANGED <<rc_cmd, rc_pc, rc_prog, rc_status, rc_proc, rc_child,
                 rc_reader, rc_lines, rc_returncode, rc_timed_out, rc_result>>
  /\ UNCHANGED <<agentVars, parseVars, epVars, tailVars>>

\* the process starts a child that inherits stdout and stderr
ProcSpawnChild ==
  /\ rc_proc = "running"
  /\ rc_cmd = "program"
  /\ rc_child = "none"
  /\ rc_child' = "holding"
  /\ UNCHANGED <<rc_cmd, rc_pc, rc_prog, rc_ip, rc_status, rc_proc, rc_pipe,
                 rc_reader, rc_lines, rc_returncode, rc_timed_out, rc_result>>
  /\ UNCHANGED <<agentVars, parseVars, epVars, tailVars>>

\* the process ends by itself after its last write
ProcExit ==
  /\ rc_proc = "running"
  /\ rc_ip = Len(rc_prog)
  /\ rc_proc' = "exited"
  /\ UNCHANGED <<rc_cmd, rc_pc, rc_prog, rc_ip, rc_status, rc_child, rc_pipe,
                 rc_reader, rc_lines, rc_returncode, rc_timed_out, rc_result>>
  /\ UNCHANGED <<agentVars, parseVars, epVars, tailVars>>

\* the child ends and its copies of the pipes are closed
ChildExit ==
  /\ rc_child = "holding"
  /\ rc_child' = "gone"
  /\ UNCHANGED <<rc_cmd, rc_pc, rc_prog, rc_ip, rc_status, rc_proc, rc_pipe,
                 rc_reader, rc_lines, rc_returncode, rc_timed_out, rc_result>>
  /\ UNCHANGED <<agentVars, parseVars, epVars, tailVars>>

\* the steps of run_cmd's own threads
CallerStep ==
  \/ PrintHeader
  \/ PrintHeaderRaises
  \/ Popen
  \/ PopenFails
  \/ StartOut
  \/ StartOutFails
  \/ StartErr
  \/ StartErrFails
  \/ Handler
  \/ ReturnError
  \/ WaitReturns
  \/ WaitTimesOut
  \/ Kill
  \/ KillFails
  \/ AppendNote
  \/ JoinOut
  \/ JoinErrAndReturn

ReaderStep ==
  \E s \in Streams : ReaderRead(s) \/ ReaderDecodeError(s) \/ ReaderEOF(s)

\* the steps of the command's processes
ProcessStep ==
  \/ ProcWrite
  \/ ProcSpawnChild
  \/ ProcExit
  \/ ChildExit

NextCmd ==
  \/ CallerStep
  \/ ReaderStep
  \/ ProcessStep

SpecCmd == InitCmd /\ [][NextCmd]_vars

\* -------------------------------------------------------- detect_endpoint
InitEp ==
  /\ pc = "off"
  /\ step = 0
  /\ consecutive_fails = 0
  /\ messages = <<SystemMsg, FirstMsg>>
  /\ raw = NoRaw
  /\ parsed = JNone
  /\ attempt = 0
  /\ feedback = "none"
  /\ calls = 0
  /\ cmds = 0
  /\ outcome = "running"
  /\ only_junk = TRUE
  /\ view = <<>>
  /\ reports = <<>>
  /\ spinning = 0
  /\ pj_text = <<>>
  /\ pj_result = JNone
  /\ pj_pc = "idle"
  /\ pj_bare = <<>>
  /\ pj_bare_result = JNone
  /\ pj_bare_pc = "idle"
  /\ CmdIdle
  /\ EpIdle
  /\ TailIdle

\* a call of detect_endpoint that finds the model in the cache
DetectEndpointCached(model) ==
  /\ ep_calls < MaxEpCalls
  /\ CachedReturn(model)
  /\ UNCHANGED <<agentVars, parseVars, cmdVars, tailVars>>

\* a call of detect_endpoint that does not find the model in the cache
DetectEndpointProbe(model) ==
  /\ ep_calls < MaxEpCalls
  /\ ProbeAndStore(model)
  /\ UNCHANGED <<agentVars, parseVars, cmdVars, tailVars>>

NextEp ==
  \E model \in Models :
    \/ DetectEndpointCached(model)
    \/ DetectEndpointProbe(model)

SpecEp == InitEp /\ [][NextEp]_vars

\* ------------------------------------------------- output tails, 885-886
\* the longest output folded on its own
MaxOutLen == 5

\* the texts: every sequence of up to MaxOutLen units of two kinds
OutChars == {OutputLine(1), OutputLine(2)}
OutTexts == UNION {[1..n -> OutChars] : n \in 0..MaxOutLen}

InitTail ==
  /\ pc = "off"
  /\ step = 0
  /\ consecutive_fails = 0
  /\ messages = <<SystemMsg, FirstMsg>>
  /\ raw = NoRaw
  /\ parsed = JNone
  /\ attempt = 0
  /\ feedback = "none"
  /\ calls = 0
  /\ cmds = 0
  /\ outcome = "running"
  /\ only_junk = TRUE
  /\ view = <<>>
  /\ reports = <<>>
  /\ spinning = 0
  /\ pj_text = <<>>
  /\ pj_result = JNone
  /\ pj_pc = "idle"
  /\ pj_bare = <<>>
  /\ pj_bare_result = JNone
  /\ pj_bare_pc = "idle"
  /\ CmdIdle
  /\ EpIdle
  /\ tl_stdout \in OutTexts
  /\ tl_stderr \in OutTexts
  /\ tl_folded = NoFolded
  /\ tl_pc = "result"

\* lines 885-886: the stdout and stderr that go into the feedback text
FoldOutput ==
  /\ tl_pc = "result"
  /\ tl_folded' = Folded(tl_stdout, tl_stderr)
  /\ tl_pc' = "folded"
  /\ UNCHANGED <<tl_stdout, tl_stderr>>
  /\ UNCHANGED <<agentVars, parseVars, cmdVars, epVars>>

NextTail == FoldOutput

SpecTail == InitTail /\ [][NextTail]_vars

\* ---------------------------------------------------------------- claims
HasKnownAction(p) == p.t = "dict" /\ p.action \in KnownActions
Min(a, b) == IF a <= b THEN a ELSE b
IsPrefix(a, b) == Len(a) <= Len(b) /\ SubSeq(b, 1, Len(a)) = a
FailureOutcomes == {"api_errors", "parse_failures"}

\* a step that ends a turn of the loop
TurnEnds == pc \in {"call", "retry", "no_json", "dispatch"} /\ pc' \in {"loop", "end"}
\* a step in which call_model was invoked and raised
CallRaised == calls' # calls /\ raw' = raw
\* a step in which call_model was invoked and returned text
CallReturned == calls' # calls /\ raw' # raw

\* C1: run_cmd is called only for a parsed object whose action field is
\* present and equals run and whose command is non-empty, and a parsed value
\* without a recognised action field never reaches the dispatcher.
C1_RunOnlyForRunDecision ==
  [][ /\ cmds' # cmds => (IsDecision(parsed) /\ parsed.action = "run")
      /\ pc' = "dispatch" => HasKnownAction(parsed') ]_vars

\* C2: consecutive_fails is 0 after every turn that yields a valid decision,
\* one more after every turn that does not (retries exhausted or an
\* inference error), the loop ends in failure exactly when it reaches
\* FAIL_LIMIT, and while the loop runs it is below FAIL_LIMIT.
C2_FailureCounter ==
  [][ /\ TurnEnds =>
           IF pc = "dispatch" /\ HasKnownAction(parsed)
             THEN consecutive_fails' = 0
             ELSE consecutive_fails' = consecutive_fails + 1
      /\ (consecutive_fails' = FAIL_LIMIT) <=> (outcome' \in FailureOutcomes)
      /\ pc' # "end" => consecutive_fails' \in 0..(FAIL_LIMIT - 1) ]_vars

\* C3: run_agent ends only by Done (success), by the failure ceiling or by
\* the iteration ceiling, never by an uncaught error, and it returns
\* success exactly when the last decision was Done.
C3_ThreeEndings ==
  pc = "end" =>
    /\ outcome \in {"done", "api_errors", "parse_failures", "step_limit"}
    /\ outcome = "done" => (HasKnownAction(parsed) /\ parsed.action = "done")
    /\ outcome = "api_errors" => consecutive_fails = FAIL_LIMIT
    /\ outcome = "parse_failures" => consecutive_fails = FAIL_LIMIT
    /\ outcome = "step_limit" => step = MAX_ITERATIONS

\* C4: an inference error raised by any generator call of a turn, the first
\* or one inside the retry loop, is counted in consecutive_fails and the
\* loop continues; it ends the run only when the count reaches FAIL_LIMIT,
\* with the failure outcome.
C4_InferenceErrorRetryable ==
  [][ CallRaised =>
        /\ consecutive_fails' = consecutive_fails + 1
        /\ IF consecutive_fails' < FAIL_LIMIT
             THEN pc' = "loop" /\ outcome' = "running"
             ELSE pc' = "end" /\ outcome' = "api_errors" ]_vars

\* C5: a turn makes at most MAX_JSON_RETRIES retry calls; each retry call is
\* made only after an output that gave no decision, with that previous raw
\* text appended as an assistant message followed by RETRY_PROMPT as a user
\* message, the view being taken from the extended conversation; a retry
\* that yields a valid decision ends the retry loop and is dispatched in the
\* same turn.
C5_JsonRetryLoop ==
  [][ /\ attempt' <= MAX_JSON_RETRIES
      /\ (calls' # calls /\ pc # "call") =>
           /\ pc = "retry"
           /\ ~IsDecision(parsed)
           /\ attempt < MAX_JSON_RETRIES
           /\ messages' = messages \o <<Msg("assistant", "raw", raw.id), RetryMsg>>
           /\ view' = trim_messages(messages')
           /\ step' = step
           /\ (CallReturned /\ IsDecision(parsed')) =>
                (pc' = "dispatch" /\ parsed' = parse_json(raw'.text))
      /\ (calls' # calls /\ pc = "call") => attempt = 0 ]_vars

\* a decision obtained on the last permitted retry is being dispatched
C5_Witness ==
  /\ pc = "dispatch"
  /\ attempt = MAX_JSON_RETRIES
  /\ IsDecision(parsed)
  /\ Len(messages) >= 2 + 2 * MAX_JSON_RETRIES

\* the turn has used its whole retry budget and what the last retry gave
\* is no decision: none, or a value without a recognised action
BudgetExhausted ==
  /\ pc \in {"no_json", "dispatch"}
  /\ attempt = MAX_JSON_RETRIES
  /\ ~HasKnownAction(parsed)

\* C6: when a turn has used its whole retry budget without a decision,
\* consecutive_fails is incremented; below FAIL_LIMIT the conversation is
\* hard-reset and the loop goes on, at FAIL_LIMIT the loop ends in failure
\* without a reset.  When every generator output is unparsable the run ends
\* in failure on turn FAIL_LIMIT after exactly
\* FAIL_LIMIT * (1 + MAX_JSON_RETRIES) calls and no command is executed.
C6_RetryExhaustion ==
  [][ /\ BudgetExhausted =>
           /\ consecutive_fails' = consecutive_fails + 1
           /\ IF consecutive_fails' < FAIL_LIMIT
                THEN /\ messages' = <<SystemMsg, ResumeMsg>>
                     /\ pc' = "loop"
                     /\ outcome' = "running"
                ELSE /\ messages' = messages
                     /\ pc' = "end"
                     /\ outcome' = "parse_failures"
      /\ only_junk' => cmds' = 0
      /\ (only_junk' /\ pc' = "end") =>
           /\ outcome' = "parse_failures"
           /\ step' = FAIL_LIMIT
           /\ calls' = FAIL_LIMIT * (1 + MAX_JSON_RETRIES) ]_vars

\* C7: the view sent by a generator call starts with the system message,
\* has at most 1 + MAX_HISTORY_MSGS messages, and its other elements are
\* exactly the last min(MAX_HISTORY_MSGS, n-1) stored non-system messages in
\* their order.
C7_WindowedView ==
  pc \in {"retry", "no_json", "dispatch"} =>
    LET n == Len(messages)
        m == Min(MAX_HISTORY_MSGS, n - 1)
    IN /\ Len(view) = 1 + m
       /\ Len(view) <= 1 + MAX_HISTORY_MSGS
       /\ view[1] = messages[1]
       /\ view[1].role = "system"
       /\ \A i \in 1..m : /\ view[1 + i] = messages[n - m + i]
                          /\ view[1 + i].role # "system"

\* a call was made with more stored messages than the window holds
C7_Witness ==
  /\ pc = "dispatch"
  /\ Len(messages) > MAX_HISTORY_MSGS + 2
  /\ Len(view) = MAX_HISTORY_MSGS + 1

\* line 669 was passed: the run is in or after its loop (the loop's first
\* step makes step positive), not at its entry and not ended by line 670
ConversationBuilt == pc # "connect" /\ (pc = "end" => step > 0)

\* C8: once it is built (line 669), the stored conversation always holds
\* exactly one system message, at index 0, and it is the message built at
\* the start of the run.
C8_OneSystemMessage ==
  ConversationBuilt =>
    /\ Len(messages) >= 1
    /\ messages[1] = SystemMsg
    /\ \A i \in 2..Len(messages) : messages[i].role # "system"

\* after a hard reset and an inference error, messages were appended again
C8_Witness ==
  /\ pc = "loop"
  /\ messages = <<SystemMsg, ResumeMsg, EmptyAssistantMsg, ApiErrorMsg>>

\* C9: every step either keeps all stored messages in place (it only
\* appends), or it is the hard reset: taken only when the turn used up its
\* retry budget without JSON and consecutive_fails stays below FAIL_LIMIT,
\* it leaves exactly the original system message and the resume message.
C9_AppendOnlyExceptHardReset ==
  [][ \/ IsPrefix(messages, messages')
      \/ /\ pc = "no_json"
         /\ attempt = MAX_JSON_RETRIES
         /\ parsed = JNone
         /\ consecutive_fails + 1 < FAIL_LIMIT
         /\ messages' = <<messages[1], ResumeMsg>>
         /\ messages[1] = SystemMsg ]_vars

\* a hard reset has just been made
C9_Witness ==
  /\ pc = "loop"
  /\ consecutive_fails \in 1..(FAIL_LIMIT - 1)
  /\ messages = <<SystemMsg, ResumeMsg>>
  /\ attempt = MAX_JSON_RETRIES

\* the candidates of the brace scan: where an object opens and the text up
\* to the matching brace parses
ParsingStarts(t) == {s \in 1..Len(t) : t[s] = "{" /\ Candidate(t, s).ok}
QualifyingStarts(t) == {s \in ParsingStarts(t) : Candidate(t, s).val.action # ABSENT}
MaxOf(S) == CHOOSE m \in S : \A x \in S : x <= m

\* C10: for a text that does not parse as a whole, parse_json returns the
\* qualifying object whose opening brace is the rightmost, also when that
\* object is nested inside an earlier qualifying one.
C10_LastQualifyingWins ==
  pj_pc = "returned" =>
    LET t == StripFence(pj_text)
    IN (~json_loads(t).ok /\ QualifyingStarts(t) # {}) =>
         pj_result = Candidate(t, MaxOf(QualifyingStarts(t))).val

\* the text holds an object without action after a qualifying object that
\* itself holds a nested qualifying object, and the nested one was returned
C10_Witness ==
  /\ pj_pc = "returned"
  /\ LET t == StripFence(pj_text)
         Q == QualifyingStarts(t)
     IN /\ ~json_loads(t).ok
        /\ ParsingStarts(t) \ Q # {}
        /\ \E s1 \in Q : \E s2 \in Q :
             /\ s1 < s2
             /\ s2 < MatchEnd(t, s1, 0)
             /\ s2 = MaxOf(Q)
             /\ Candidate(t, s1).val # Candidate(t, s2).val
             /\ pj_result = Candidate(t, s2).val

\* C11: parse_json returns None for every text that holds no brace-balanced
\* object with an action field, a text that parses as a whole included: a
\* value that comes back is an object that carries the action field.
C11_NoneWithoutActionObject ==
  pj_pc = "returned" =>
    /\ QualifyingStarts(StripFence(pj_text)) = {} => pj_result = JNone
    /\ pj_result # JNone => (pj_result.t = "dict" /\ pj_result.action # ABSENT)

\* C12: for a decision object d, parse_json of d inside a fenced block
\* (with or without the json tag, any whitespace around) returns the same
\* object as parse_json of d alone, and that object is the decision.
C12_FenceTransparent ==
  (pj_pc = "returned" /\ pj_bare_pc = "returned") =>
    /\ pj_result = pj_bare_result
    /\ pj_bare_result = json_loads(pj_bare).val
    /\ IsDecision(pj_bare_result)

\* both calls returned for a decision that holds a nested decision, fenced
\* with the json tag and whitespace of both kinds around it
C12_Witness ==
  /\ pj_pc = "returned"
  /\ pj_bare_pc = "returned"
  /\ Cardinality(QualifyingStarts(pj_bare)) = 2
  /\ pj_text = Wrap(Ws("ff", 1), TRUE, Ws("ws", 1), pj_bare, Ws("ff", 1),
                    Ws("ws", 1))
  /\ pj_result = pj_bare_result
  /\ pj_result.action = "run"

\* C13: whatever parse_json returns, the caller reads its fields without
\* failing: a value that reaches the dispatcher is an object, and no
\* dispatch step ends in an uncaught error.
C13_ParsedNeverBreaksCaller ==
  [][ pc = "dispatch" => (parsed.t = "dict" /\ outcome' # "crash") ]_vars

\* the second turn dispatches a done decision after the first turn ran a
\* command that exited 0
DoneAfterSuccess ==
  /\ pc = "dispatch"
  /\ HasKnownAction(parsed)
  /\ parsed.action = "done"
  /\ calls = 2
  /\ cmds = 1
  /\ feedback = "success"

\* C14: step starts at 0; it grows by exactly one when a turn starts, and a
\* turn never starts without it; no other step changes it, a retry call
\* included; it never exceeds MAX_ITERATIONS; and when the first turn runs a
\* command that exits 0 and the second turn is done, the run ends with
\* success at step 2.
C14_StepCounter ==
  /\ step = 0
  /\ [][ /\ (pc = "loop" /\ pc' = "call") => step' = step + 1
         /\ ~(pc = "loop" /\ pc' = "call") => step' = step
         /\ pc' = "call" => pc = "loop"
         /\ (calls' # calls /\ pc = "retry") => step' = step
         /\ step' >= step
         /\ step' <= MAX_ITERATIONS
         /\ DoneAfterSuccess =>
              (step' = 2 /\ pc' = "end" /\ outcome' = "done") ]_vars

\* C15: run_agent ends by Done, by the failure ceiling or by the iteration
\* ceiling, and by then it has made at most MAX_ITERATIONS turns and at most
\* MAX_ITERATIONS * (1 + MAX_JSON_RETRIES) generator calls.
C15_EndsWithinBounds ==
  /\ step <= MAX_ITERATIONS
  /\ calls <= MAX_ITERATIONS * (1 + MAX_JSON_RETRIES)
  /\ pc = "end" => outcome \in {"done", "api_errors", "parse_failures", "step_limit"}

\* the process is stopped in a write to stream s: the pipe is full
ProcBlockedOn(s) ==
  /\ rc_proc = "running"
  /\ rc_ip < Len(rc_prog)
  /\ rc_prog[rc_ip + 1] = s
  /\ Len(rc_pipe[s]) >= PipeCap

\* C16: whenever the process is stopped in a write to one of its streams
\* while the caller is in its wait or its joins, the reader of that very
\* stream can take what is in the pipe, whatever the other reader and the
\* caller wait for: the process is never stuck behind an unread pipe.
C16_NoPipeDeadlock ==
  \A s \in Streams :
    (ProcBlockedOn(s) /\ rc_pc \in {"wait", "kill", "note", "join_out", "join_err"}) =>
      ENABLED (ReaderRead(s) \/ ReaderDecodeError(s))

\* C17: run_cmd always returns: as long as it has not returned, its caller
\* thread or one of its readers can take a step, also after a timeout and
\* when the process left children behind; on return both readers have seen
\* the end of their stream, and after a timeout the process runs no more.
C17_AlwaysReturns ==
  /\ rc_pc \notin {"idle", "done"} => ENABLED (CallerStep \/ ReaderStep)
  /\ (rc_pc = "done" /\ rc_proc # "none") =>
       \A s \in Streams : rc_reader[s] = "done"
  /\ (rc_pc = "done" /\ rc_timed_out) => rc_proc # "running"

\* C18: when proc.wait timed out, run_cmd has killed the process and the
\* result it returns carries an exit field that is neither a status of a
\* process that ended by itself nor SPAWN_ERROR, with the note in stderr.
C18_TimeoutMarker ==
  (rc_pc = "done" /\ rc_timed_out) =>
    /\ rc_proc = "killed"
    /\ rc_result.returncode \notin {JNum(c) : c \in ExitStatuses \cup {SPAWN_ERROR}}
    /\ TimedOutNote \in Range(rc_result.stderr)

\* C19: the result carries SPAWN_ERROR exactly when no process was started,
\* then with the error text as stderr; and a command that names an
\* interpreter that does not exist gives SPAWN_ERROR.
C19_SpawnErrorMarker ==
  rc_pc = "done" =>
    /\ (rc_result.returncode = JNum(SPAWN_ERROR)) <=> (rc_proc = "none")
    /\ rc_proc = "none" => rc_result.stderr = <<ErrorText>>
    /\ rc_cmd = "no_such_interpreter" => rc_result.returncode = JNum(SPAWN_ERROR)

\* C20: a run turn whose command timed out or could not be started ends
\* like any failed command: the feedback is FAILED, the assistant text and
\* the feedback are appended, consecutive_fails is 0 and the loop goes on.
C20_TimeoutAndSpawnErrorAreFailures ==
  [][ (cmds' # cmds /\ ({TimedOutNote, ErrorText} \cap Range(rc_result'.stderr) # {})) =>
        /\ feedback' = "failed"
        /\ messages' = messages \o <<RawMsg(raw), FeedbackMsg>>
        /\ consecutive_fails' = 0
        /\ pc' = "loop"
        /\ outcome' = "running" ]_vars

\* C21: every ask decision, whatever its question, makes run_agent wait for
\* the human's answer, and the answer, with the instruction not to ask
\* again, is appended as the user message after the assistant text before
\* the loop goes on.
C21_AskWaitsForHuman ==
  [][ (pc = "dispatch" /\ parsed.t = "dict" /\ GetAction(parsed) = "ask") =>
        /\ feedback' = "human_answer"
        /\ messages' = messages \o <<RawMsg(raw), FeedbackMsg>>
        /\ pc' = "loop" ]_vars

\* C22: a run decision whose command is empty or missing runs no command:
\* the assistant text and the feedback asking for a command are appended,
\* consecutive_fails does not grow, and the loop goes on to the next turn.
\* (Line 874 prints the reason before the test for an empty command, and
\* the run ends there when the reason cannot be printed.)
C22_EmptyCommandIsRecoverable ==
  [][ (pc = "dispatch" /\ parsed.t = "dict" /\ GetAction(parsed) = "run"
         /\ parsed.command \in {ABSENT, ""}) =>
        /\ cmds' = cmds
        /\ feedback' = "empty_command"
        /\ messages' = messages \o <<RawMsg(raw), FeedbackMsg>>
        /\ consecutive_fails' <= consecutive_fails
        /\ consecutive_fails' = 0
        /\ step' = step
        /\ pc' = "loop"
        /\ outcome' = "running" ]_vars

\* C23: a search or fetch decision never ends the loop and leaves
\* consecutive_fails at 0: whatever the gateway gives (unavailable, nothing
\* useful, results, a page), the outcome is appended as user feedback after
\* the assistant text and the loop goes on.
C23_SearchFetchNeverFatal ==
  [][ (pc = "dispatch" /\ parsed.t = "dict"
         /\ GetAction(parsed) \in {"search", "fetch"}) =>
        /\ pc' = "loop"
        /\ outcome' = "running"
        /\ consecutive_fails' = 0
        /\ messages' = messages \o <<RawMsg(raw), FeedbackMsg>>
        /\ feedback' \in {"empty_query", "web_unavailable", "search_results",
                         "search_no_results", "invalid_url", "fetched"} ]_vars

\* C24: a run that has ended has printed exactly one outcome report, the
\* one of the path taken: task complete after done, the consecutive-failure
\* report when consecutive_fails reached FAIL_LIMIT, the step-limit report
\* when the loop ended at MAX_ITERATIONS; while it runs it has printed none.
C24_ExactlyOneReport ==
  /\ pc # "end" => reports = <<>>
  /\ pc = "end" =>
       /\ Len(reports) = 1
       /\ reports[1] = "task_complete" <=> outcome = "done"
       /\ reports[1] \in {"api_errors", "consecutive_failures"} <=>
            consecutive_fails = FAIL_LIMIT
       /\ reports[1] = "step_limit" <=>
            (step = MAX_ITERATIONS /\ outcome = "step_limit")

\* the last two elements of a sequence of at least two
LastTwo(q) == SubSeq(q, Len(q) - 1, Len(q))

\* C25: the dispatch of a run, ask, search or fetch decision that lets the
\* loop go on appends the raw text as an assistant message and then the
\* feedback as a user message, without calling the generator; the next
\* generator call finds the pair at the end of the stored conversation and
\* sends it at the end of its view, and any later call made before another
\* decision still finds the pair, in that order, in the conversation.
C25_FeedbackBeforeNextCall ==
  [][ /\ (pc = "dispatch" /\ pc' = "loop") =>
           /\ messages' = messages \o <<Msg("assistant", "raw", raw.id),
                                        Msg("user", "feedback", 0)>>
           /\ feedback' # "none"
           /\ calls' = calls
      /\ (calls' # calls /\ pc = "call" /\ parsed # JNone) =>
           /\ \E i \in 1..(Len(messages) - 1) :
                /\ messages[i] = Msg("assistant", "raw", raw.id)
                /\ messages[i + 1] = Msg("user", "feedback", 0)
           /\ messages[Len(messages)] # ApiErrorMsg =>
                /\ LastTwo(messages) = <<Msg("assistant", "raw", raw.id),
                                         Msg("user", "feedback", 0)>>
                /\ LastTwo(view') = LastTwo(messages) ]_vars

\* the call after a search that found the gateway unavailable has been made
\* with the assistant text and the feedback at the end of its view
C25_Witness ==
  /\ pc \in {"retry", "dispatch"}
  /\ attempt = 0
  /\ step = 2
  /\ feedback = "web_unavailable"
  /\ Len(view) = 4
  /\ view[3].role = "assistant"
  /\ view[3].content.kind = "raw"
  /\ view[4] = FeedbackMsg

\* the lines the process has written to stream s, in the order written
WrittenTo(s) ==
  LET F[i \in 0..rc_ip] ==
        IF i = 0 THEN <<>>
        ELSE IF rc_prog[i] = s THEN Append(F[i - 1], Written(i)) ELSE F[i - 1]
  IN F[rc_ip]

\* a result's lines without the notes run_cmd adds itself
ProcessLines(q) == SelectSeq(q, LAMBDA l : l.kind \in {"line", "bytes"})

\* C26: whenever run_cmd has returned a result, no reader thread is still
\* active: each reader has ended or was never started.
C26_ReadersEndedOnReturn ==
  rc_pc = "done" => \A s \in Streams : rc_reader[s] # "reading"

\* C27: in the result of a run_cmd that timed out, and in the stderr list
\* from then on, the timeout note is the last stderr line.
C27_TimeoutNoteLast ==
  (rc_pc = "done" /\ rc_timed_out) =>
    /\ rc_result.stderr # <<>>
    /\ rc_result.stderr[Len(rc_result.stderr)] = TimedOutNote
    /\ rc_lines["err"][Len(rc_lines["err"])] = TimedOutNote

\* C28: when run_cmd returns for a process that was started, the stdout of
\* the result is exactly what the process wrote to stdout, in the order
\* written, and so for stderr: no line is left unread, none is taken twice,
\* none goes to the other stream.
C28_NoOutputUnread ==
  (rc_pc = "done" /\ rc_proc # "none" /\ WriteEndsClosed) =>
    /\ ProcessLines(rc_result.stdout) = WrittenTo("out")
    /\ ProcessLines(rc_result.stderr) = WrittenTo("err")

\* C29: at most one Spinner thread is alive; none is alive when a decision
\* is about to be dispatched (human input read, command run, output
\* printed), when the turn goes on to its next step, or when run_agent has
\* ended, also after a generator call that failed.
C29_SpinnerStopped ==
  /\ spinning <= 1
  /\ pc \in {"retry", "no_json", "dispatch", "loop", "end"} => spinning = 0

\* C30: the cache is write-once per model.  A model is probed at most once;
\* a stored entry is the chat pair or the generate pair and never changes
\* again; a call for a model that has an entry returns that entry, sends no
\* probe and leaves the cache as it is; a call for a model without an entry
\* sends one probe and stores what it returns.
C30_CacheWriteOnce ==
  /\ ep_calls = 0
  /\ [][ /\ \A m \in Models :
              /\ ep_probes'[m] <= 1
              /\ ep_cache'[m] \in {NotCached, ChatEndpoint, GenerateEndpoint}
              /\ (ep_cache[m] # NotCached) => (ep_cache'[m] = ep_cache[m])
              /\ (ep_probes'[m] = 1) <=> (ep_cache'[m] # NotCached)
         /\ (ep_calls' # ep_calls) =>
              LET m == ep_ret'.model
              IN IF ep_cache[m] # NotCached
                   THEN /\ ep_ret'.value = ep_cache[m]
                        /\ ep_probes' = ep_probes
                        /\ ep_cache' = ep_cache
                   ELSE /\ ep_probes' = [ep_probes EXCEPT ![m] = 1]
                        /\ ep_cache'[m] \in {ChatEndpoint, GenerateEndpoint}
                        /\ ep_ret'.value = ep_cache'[m]
                        /\ \A o \in Models \ {m} : ep_cache'[o] = ep_cache[o] ]_vars

\* detect_endpoint was called three times for one model, whose probe
\* failed: one probe was sent, and the last call returned the stored pair
C30_Witness ==
  /\ ep_calls = 3
  /\ ep_probes = [m \in Models |-> IF m = 2 THEN 1 ELSE 0]
  /\ ep_cache[2] = GenerateEndpoint
  /\ ep_ret = [model |-> 2, value |-> GenerateEndpoint]

\* the last n characters of text are exactly q
IsLastChars(q, text, n) ==
  /\ Len(q) = n
  /\ \A i \in 1..n : q[i] = text[Len(text) - n + i]

\* C31: the stdout part of the feedback is the whole stdout when it has at
\* most STDOUT_TAIL characters and otherwise exactly its last STDOUT_TAIL
\* characters; the stderr part likewise with STDERR_TAIL.
C31_OutputTailBounded ==
  tl_pc = "folded" =>
    /\ IF Len(tl_stdout) <= STDOUT_TAIL
         THEN tl_folded.stdout = tl_stdout
         ELSE IsLastChars(tl_folded.stdout, tl_stdout, STDOUT_TAIL)
    /\ IF Len(tl_stderr) <= STDERR_TAIL
         THEN tl_folded.stderr = tl_stderr
         ELSE IsLastChars(tl_folded.stderr, tl_stderr, STDERR_TAIL)

\* a stdout and a stderr both longer than their tails, whose heads differ
\* from their tails, have been folded
C31_Witness ==
  /\ tl_pc = "folded"
  /\ Len(tl_stdout) = STDOUT_TAIL + 2
  /\ Len(tl_stderr) = STDERR_TAIL + 1
  /\ tl_stdout[1] = OutputLine(1)
  /\ tl_folded.stdout = [i \in 1..STDOUT_TAIL |-> OutputLine(2)]
  /\ tl_stderr[1] = OutputLine(1)
  /\ tl_folded.stderr = [i \in 1..STDERR_TAIL |-> OutputLine(2)]

\* system, user, assistant, user, ..., user
Alternates(msgs) ==
  /\ Len(msgs) >= 2
  /\ Len(msgs) % 2 = 0
  /\ msgs[1].role = "system"
  /\ \A i \in 2..Len(msgs) :
       msgs[i].role = IF i % 2 = 0 THEN "user" ELSE "assistant"

\* the conversation as stored when the call of this step is made: a call of
\* the retry loop is made after its two messages are appended
StoredAtCall == IF pc = "retry" THEN messages' ELSE messages

\* C32: at every generator call the stored conversation is the system
\* message followed by messages whose roles alternate, beginning and ending
\* with a user message.
C32_RolesAlternateAtCalls ==
  [][ (calls' # calls) => Alternates(StoredAtCall) ]_vars

\* a call has been made on a conversation that holds an API-error notice, a
\* retry prompt and the feedback of a dispatched decision
C32_Witness ==
  /\ calls >= 4
  /\ pc \in {"retry", "dispatch"}
  /\ attempt = 0
  /\ Len(messages) = 8
  /\ \E i, j, k \in 2..Len(messages) :
       /\ messages[i] = ApiErrorMsg
       /\ messages[j] = RetryMsg
       /\ messages[k] = FeedbackMsg

\* the messages that state the task: the first user message and the
\* message a hard reset puts in its place
TaskMsgs == {FirstMsg, ResumeMsg}

\* C33: at every generator call, when at most MAX_HISTORY_MSGS messages
\* follow the system message the view is the stored conversation and its
\* second message states the task; when more follow it, the view holds no
\* message stating the task, its first non-system message is the stored
\* message MAX_HISTORY_MSGS from the end, and that is an assistant message
\* (MAX_HISTORY_MSGS being even, as it is in the source).
C33_TaskLeavesWindow ==
  [][ (calls' # calls) =>
        LET stored == StoredAtCall
            n == Len(stored) - 1
        IN /\ stored[2] \in TaskMsgs
           /\ IF n <= MAX_HISTORY_MSGS
                THEN /\ view' = stored
                     /\ view'[2] \in TaskMsgs
                ELSE /\ Range(view') \cap TaskMsgs = {}
                     /\ Len(view') = MAX_HISTORY_MSGS + 1
                     /\ view'[2] = stored[Len(stored) - MAX_HISTORY_MSGS + 1]
                     /\ (MAX_HISTORY_MSGS % 2 = 0) => (view'[2].role = "assistant") ]_vars

\* a call has been made with a view that has lost the first task message:
\* it begins system, assistant and no hard reset has happened
C33_Witness ==
  /\ calls >= 3
  /\ Len(messages) > MAX_HISTORY_MSGS + 1
  /\ messages[2] = FirstMsg
  /\ Len(view) = MAX_HISTORY_MSGS + 1
  /\ view[1] = SystemMsg
  /\ view[2].role = "assistant"
  /\ FirstMsg \notin Range(view)

====
